---- MODULE Spec2Model ----
(***************************************************************************)
(* yay-traynote: a tray notifier that polls `yay` for package updates.     *)
(*                                                                         *)
(* Two specifications over one set of variables:                           *)
(*   Spec       the controller of one running instance (UpdateNotifier,    *)
(*              its UpdateChecker thread, its timers, the Qt event queue)  *)
(*   SpecGuard  several processes running main() against one lock file     *)
(*              (SingleInstance)                                           *)
(* Times are kept in the code's own units: the animation phase flash_time  *)
(* counts the 0.05 s increments added since it was last set to 0.0, the    *)
(* polling timer counts milliseconds.                                      *)
(***************************************************************************)
EXTENDS Integers, Sequences, FiniteSets, TLC

(* ------------------------------------------------------------------ *)
(* bounds of the model                                                 *)
(* ------------------------------------------------------------------ *)
MaxClock == 2        \* wall-clock steps of TimeUnit the model lets pass
MaxQueue == 2        \* queued signals the event queue may hold
MaxFlashTicks == 1   \* animation ticks Spec lets pass after a phase reset
NumProcs == 3        \* processes launched against the lock file (SpecGuard)
MaxSessions == 2     \* spawned terminals the model lets live at once
MaxInode == 3        \* lock-file inodes the file system hands out (SpecGuard)

(* ------------------------------------------------------------------ *)
(* program constants                                                   *)
(* ------------------------------------------------------------------ *)
DEFAULT_CHECK_INTERVAL == 3600
TimeUnit == 1800000           \* ms: the shortest interval of the menu, 1800 s
\* flash_time is a float that starts at 0.0 and grows by 0.05 per tick.  As
\* IEEE doubles, 16 additions give 0.8000000000000002 (>= FLASH_CYCLE_FAST)
\* and 60 additions give 2.9999999999999996 (< FLASH_CYCLE_SLOW), so the
\* test `flash_time >= flash_cycle_duration` first succeeds at these counts.
FLASH_CYCLE_FAST == 16
FLASH_CYCLE_SLOW == 61

\* the (label, seconds) list of setup_menu
intervals == <<1800, 3600, 7200, 21600, 43200, 86400>>
IntervalValues == {intervals[i] : i \in 1..Len(intervals)}

\* None, and a value v that is present, as sequences of length 0 and 1
None == <<>>
Some(v) == <<v>>

VARIABLES
    \* ---- one running instance (Spec) ----
    app,                  \* "running" | "quit" | "aborted"
    settings,             \* SettingsManager.settings (in memory)
    settings_file,        \* the document in settings.json, None when absent
    updates_available,
    yay_running,
    icon_state,           \* 'idle' | 'checking' | 'updates_available'
    tooltip,
    check_timer,          \* [active, interval, remaining] in ms
    flash_timer,          \* flash_timer.isActive()
    flash_time,           \* number of 0.05 increments since 0.0
    flash_cycle_duration, \* FLASH_CYCLE_FAST | FLASH_CYCLE_SLOW
    brightness_factor,    \* in thousandths
    icon_cache,           \* keys of self.icon_cache, in thousandths
    renders,              \* icons rendered by apply_brightness so far
    icon,                 \* the icon shown: 0 = default_icon, else the
                          \* icon cached under that key
    checker_pc,           \* position of UpdateChecker.run; "idle" = not running
    checker_updates,      \* the worker's local list `updates`
    checker_stdout,       \* the worker's local result.stdout, as lines
    queue,                \* queued signal emissions awaiting the event loop
    session,              \* number of spawned terminals that have not exited
    followup,             \* a pending QTimer.singleShot(check_for_updates)
    now,                  \* wall clock, in steps of TimeUnit
    request,              \* history: what the last step's check_for_updates()
                          \* or run_yay_terminal() call did: "started",
                          \* "ignored", "already_running", else "-"
    found_fresh,          \* history: updates_found has been delivered, and
                          \* since then no menu command was given and no
                          \* check_completed delivered
    checked,              \* Check Interval menu: indices of the checked entries
    \* ---- the lock file and the processes (SpecGuard) ----
    pc,                   \* per process: position in main()
    lock_file,            \* per process: inode behind self.lock_file, 0 = None
    instance,             \* per process: "True"/"False" as __enter__ returned
    atexit_registered,    \* per process: atexit.register(self.cleanup) done
    exit_code,            \* per process: exit status, -1 while none is set
    effects,              \* per process: what main() has done beyond the guard
    path_inode,           \* inode the lock path names, 0 = no such file
    inode_text,           \* per inode: the pid written in the file, 0 = empty
    inode_lock,           \* per inode: process holding the lock, 0 = unlocked
    next_inode            \* inodes handed out so far

ctrl_vars == <<app, settings, settings_file, updates_available, yay_running,
               icon_state, tooltip, check_timer, flash_timer, flash_time,
               flash_cycle_duration, brightness_factor, icon_cache, renders, icon, checker_pc,
               checker_updates, checker_stdout, queue, session, followup, now, request,
               found_fresh, checked>>
guard_vars == <<pc, lock_file, instance, atexit_registered, exit_code, effects,
                path_inode, inode_text, inode_lock, next_inode>>
vars == <<ctrl_vars, guard_vars>>

(* ------------------------------------------------------------------ *)
(* SettingsManager                                                     *)
(* ------------------------------------------------------------------ *)
default_settings == [check_interval |-> DEFAULT_CHECK_INTERVAL, last_check |-> None]

\* settings.json as a launch may find it: absent, or left by an earlier run
\* in which the shortest interval was chosen before any check completed
StoredFiles ==
    {None, Some([check_interval |-> intervals[1], last_check |-> None])}

\* load_settings(): the defaults, updated with the document when there is one
load_settings(file) ==
    IF file = None
    THEN default_settings
    ELSE [key \in DOMAIN default_settings |->
             IF key \in DOMAIN file[1] THEN file[1][key]
                                       ELSE default_settings[key]]

\* set(key, value): update the mapping, then save_settings() writes the whole
\* document to settings.json
settings_set(key, value) ==
    /\ settings' = [settings EXCEPT ![key] = value]
    /\ settings_file' = Some(settings')

(* ------------------------------------------------------------------ *)
(* UpdateChecker.run, on its own thread                                *)
(* ------------------------------------------------------------------ *)
\* Text is a sequence of tokens, " " standing for white space.  A line of
\* `yay -Qu` is given as the pieces str.split(' -> ') leaves of it, and an
\* output as the lines result.stdout.strip().split('\n') leaves of it.
Outputs ==
    { <<>>,
      << << <<"orphan", " ", "1.0">> >> >>,
      << << <<"foo", " ", "1.0-1">>, <<"1.1-1">> >>,
         << <<>> >>,
         << <<"bar", " ", "2.0", " ">>, <<" ", "2.1">> >>,
         << <<"baz", " ", "3">>, <<"4">>, <<"5">> >> >> }

\* str.strip()
RECURSIVE lstrip(_)
lstrip(text) ==
    IF text # <<>> /\ Head(text) = " " THEN lstrip(Tail(text)) ELSE text
RECURSIVE rstrip(_)
rstrip(text) ==
    IF text # <<>> /\ text[Len(text)] = " "
    THEN rstrip(SubSeq(text, 1, Len(text) - 1)) ELSE text
strip(text) == rstrip(lstrip(text))

\* `line.strip()` is true: the line holds a separator, or its only piece
\* holds more than white space
nonblank(line) == Len(line) >= 2 \/ strip(line[1]) # <<>>

\* the loop over the lines: `if line.strip() and ' -> ' in line`, then
\* `package_info = line.split(' -> ')` and `if len(package_info) >= 2`
RECURSIVE parse_updates(_)
parse_updates(lines) ==
    IF lines = <<>> THEN <<>>
    ELSE LET package_info == Head(lines)
             rest == parse_updates(Tail(lines))
         IN  IF nonblank(package_info) /\ Len(package_info) >= 2
             THEN <<[name |-> strip(package_info[1]),
                     version |-> strip(package_info[2])]>> \o rest
             ELSE rest

\* a signal emitted on the worker thread is queued for the receiver's thread
emit(signal) == queue' = Append(queue, signal)

\* subprocess.run(['which', 'yay'], timeout=5)
CheckerWhich ==
    /\ app = "running"
    /\ checker_pc = "which"
    /\ \E outcome \in {"which_present", "which_absent", "which_raised"} :
          /\ checker_pc' = CASE outcome = "which_present" -> "sync"
                             [] outcome = "which_absent"  -> "idle"   \* bare return
                             [] outcome = "which_raised"  -> "emit_completed"
    /\ UNCHANGED <<app, settings, settings_file, updates_available, yay_running,
                   icon_state, tooltip, check_timer, flash_timer, flash_time,
                   flash_cycle_duration, brightness_factor, icon_cache, renders, icon, checker_updates, checker_stdout,
                   queue, session, followup, now>>
    /\ request' = "-"
    /\ UNCHANGED found_fresh
    /\ UNCHANGED checked
    /\ UNCHANGED guard_vars

\* CheckerSync with a timeout that ends run() without a signal
CheckerSync_no_completion ==
    /\ app = "running"
    /\ checker_pc = "sync"
    /\ \E outcome \in {"sync_exited", "sync_timeout"} :
          /\ checker_pc' = IF outcome = "sync_exited" THEN "query" ELSE "idle"
    /\ UNCHANGED <<app, settings, settings_file, updates_available, yay_running,
                   icon_state, tooltip, check_timer, flash_timer, flash_time,
                   flash_cycle_duration, brightness_factor, icon_cache, renders, icon, checker_updates, checker_stdout,
                   queue, session, followup, now>>
    /\ request' = "-"
    /\ UNCHANGED found_fresh
    /\ UNCHANGED checked
    /\ UNCHANGED guard_vars

\* subprocess.run(['sudo', 'yay', '-Sy'], timeout=SYNC_TIMEOUT); its exit code
\* is not looked at
CheckerSync ==
    /\ app = "running"
    /\ checker_pc = "sync"
    /\ \E outcome \in {"sync_exited", "sync_timeout"} :
          /\ checker_pc' = IF outcome = "sync_exited" THEN "query"
                                                      ELSE "emit_completed"
    /\ UNCHANGED <<app, settings, settings_file, updates_available, yay_running,
                   icon_state, tooltip, check_timer, flash_timer, flash_time,
                   flash_cycle_duration, brightness_factor, icon_cache, renders, icon, checker_updates, checker_stdout,
                   queue, session, followup, now>>
    /\ request' = "-"
    /\ UNCHANGED found_fresh
    /\ UNCHANGED checked
    /\ UNCHANGED guard_vars

\* subprocess.run(['yay', '-Qu'], timeout=CHECK_TIMEOUT) and the parse
CheckerQuery ==
    /\ app = "running"
    /\ checker_pc = "query"
    /\ \/ \E outcome \in {"query_timeout", "query_nonzero"} :
             /\ checker_pc' = "emit_completed"
             /\ checker_updates' = <<>>
             /\ checker_stdout' = <<>>
       \/ \E stdout \in Outputs :
             LET updates == parse_updates(stdout)
             IN  /\ checker_updates' = updates
                 /\ checker_stdout' = stdout
                 /\ checker_pc' = IF updates # <<>> THEN "emit_found"
                                                    ELSE "emit_completed"
    /\ UNCHANGED <<app, settings, settings_file, updates_available, yay_running,
                   icon_state, tooltip, check_timer, flash_timer, flash_time,
                   flash_cycle_duration, brightness_factor, icon_cache, renders, icon, queue, session,
                   followup, now>>
    /\ request' = "-"
    /\ UNCHANGED found_fresh
    /\ UNCHANGED checked
    /\ UNCHANGED guard_vars

\* self.updates_found.emit(updates)
CheckerEmitFound ==
    /\ app = "running"
    /\ checker_pc = "emit_found"
    /\ Len(queue) < MaxQueue
    /\ emit([signal |-> "updates_found", updates |-> checker_updates])
    /\ checker_pc' = "emit_completed"
    /\ UNCHANGED <<app, settings, settings_file, updates_available, yay_running,
                   icon_state, tooltip, check_timer, flash_timer, flash_time,
                   flash_cycle_duration, brightness_factor, icon_cache, renders, icon, checker_updates, checker_stdout,
                   session, followup, now>>
    /\ request' = "-"
    /\ UNCHANGED found_fresh
    /\ UNCHANGED checked
    /\ UNCHANGED guard_vars

\* self.check_completed.emit(), after which run() returns
CheckerEmitCompleted ==
    /\ app = "running"
    /\ checker_pc = "emit_completed"
    /\ Len(queue) < MaxQueue
    /\ emit([signal |-> "check_completed", updates |-> <<>>])
    /\ checker_pc' = "idle"
    /\ checker_updates' = <<>>
    /\ checker_stdout' = <<>>
    /\ UNCHANGED <<app, settings, settings_file, updates_available, yay_running,
                   icon_state, tooltip, check_timer, flash_timer, flash_time,
                   flash_cycle_duration, brightness_factor, icon_cache, renders, icon, session, followup,
                   now>>
    /\ request' = "-"
    /\ UNCHANGED found_fresh
    /\ UNCHANGED checked
    /\ UNCHANGED guard_vars

(* ------------------------------------------------------------------ *)
(* UpdateNotifier: the handlers, run on the controller (GUI) thread    *)
(* ------------------------------------------------------------------ *)
Tip(text, count) == [text |-> text, count |-> count]

\* start_periodic_checks(), reading the interval from settings mapping s
start_periodic_checks(s) ==
    LET interval == s.check_interval * 1000
    IN  check_timer' = [active |-> TRUE, interval |-> interval,
                        remaining |-> interval]

\* check_for_updates() that leaves a stopped animation timer stopped
check_for_updates_no_restart ==
    IF checker_pc = "idle"                  \* not update_checker.isRunning()
    THEN /\ updates_available' = FALSE
         /\ icon_state' = "checking"
         /\ flash_time' = 0
         /\ UNCHANGED flash_timer
         /\ tooltip' = Tip("Checking for updates...", 0)
         /\ checker_pc' = "which"           \* update_checker.start()
         /\ request' = "started"
         /\ UNCHANGED <<checker_updates, checker_stdout>>
    ELSE /\ request' = "ignored"
         /\ UNCHANGED <<updates_available, icon_state, flash_time, flash_timer,
                        tooltip, checker_pc, checker_updates, checker_stdout>>

\* check_for_updates() with the isRunning() test left out
check_for_updates_unguarded ==
    /\ updates_available' = FALSE
    /\ icon_state' = "checking"
    /\ flash_time' = 0
    /\ flash_timer' = TRUE
    /\ tooltip' = Tip("Checking for updates...", 0)
    /\ checker_pc' = IF checker_pc = "idle" THEN "which" ELSE checker_pc
    /\ request' = "started"
    /\ UNCHANGED <<checker_updates, checker_stdout>>

check_for_updates ==
    IF checker_pc = "idle"                  \* not update_checker.isRunning()
    THEN /\ updates_available' = FALSE
         /\ icon_state' = "checking"
         /\ flash_time' = 0
         /\ flash_timer' = TRUE             \* started unless already active
         /\ tooltip' = Tip("Checking for updates...", 0)
         /\ checker_pc' = "which"           \* update_checker.start()
         /\ request' = "started"
         /\ UNCHANGED <<checker_updates, checker_stdout>>
    ELSE /\ request' = "ignored"
         /\ UNCHANGED <<updates_available, icon_state, flash_time, flash_timer,
                        tooltip, checker_pc, checker_updates, checker_stdout>>

\* on_check_completed() that sets the idle status whatever the flag says
on_check_completed_unconditional ==
    /\ icon_state' = "idle"
    /\ tooltip' = Tip("No updates available", 0)
    /\ settings_set("last_check", Some(now))
    /\ UNCHANGED <<updates_available, flash_time, flash_timer>>

on_updates_found(updates) ==
    /\ updates_available' = TRUE
    /\ icon_state' = "updates_available"
    /\ tooltip' = Tip("updates available", Len(updates))
    /\ flash_time' = 0
    /\ flash_timer' = TRUE
    /\ settings_set("last_check", Some(now))

on_check_completed ==
    /\ IF ~updates_available
       THEN /\ icon_state' = "idle"
            /\ tooltip' = Tip("No updates available", 0)
       ELSE UNCHANGED <<icon_state, tooltip>>
    /\ settings_set("last_check", Some(now))
    /\ UNCHANGED <<updates_available, flash_time, flash_timer>>

clear_updates ==
    /\ updates_available' = FALSE
    /\ icon_state' = "idle"
    /\ tooltip' = Tip("Alert cleared", 0)

\* brightness_offset + brightness_range * (sin(2*pi*flash_time/duration) + 1) / 2
\* in thousandths (round(factor, 3)), 1000 exactly where the float is >= 1.0;
\* entry k + 1 is the value after k increments of 0.05
BrightnessFast ==
    <<750, 846, 927, 981, 1000, 981, 927, 846, 750, 654, 573, 519, 500, 519,
      573, 654>>
BrightnessSlow ==
    <<750, 776, 802, 827, 852, 875, 897, 917, 936, 952, 967, 978, 988, 995,
      999, 1000, 999, 995, 988, 978, 967, 952, 936, 917, 897, 875, 852, 827,
      802, 776, 750, 724, 698, 673, 648, 625, 603, 583, 564, 548, 533, 522,
      512, 505, 501, 500, 501, 505, 512, 522, 533, 548, 564, 583, 603, 625,
      648, 673, 698, 724, 750>>
\* the wave started at its crest (a cosine in the place of the sine)
brightness_from_crest(t, duration) ==
    IF duration = FLASH_CYCLE_FAST THEN BrightnessFast[((t + 4) % FLASH_CYCLE_FAST) + 1]
                                   ELSE BrightnessSlow[((t + 15) % FLASH_CYCLE_SLOW) + 1]

brightness(t, duration) ==
    IF duration = FLASH_CYCLE_FAST THEN BrightnessFast[t + 1]
                                   ELSE BrightnessSlow[t + 1]

\* apply_brightness() that renders and stores an icon on every call
apply_brightness_uncached(factor) ==
    IF factor >= 1000
    THEN /\ icon' = 0
         /\ UNCHANGED <<icon_cache, renders>>
    ELSE /\ icon_cache' = icon_cache \cup {factor}
         /\ renders' = renders + 1
         /\ icon' = factor

\* setIcon(apply_brightness(self.default_icon, factor)); the cache key
\* round(factor, 3) is the factor in thousandths
apply_brightness(factor) ==
    IF factor >= 1000
    THEN /\ icon' = 0                                \* return icon
         /\ UNCHANGED <<icon_cache, renders>>
    ELSE IF factor \in icon_cache
    THEN /\ icon' = factor                           \* cache hit
         /\ UNCHANGED <<icon_cache, renders>>
    ELSE /\ icon_cache' = icon_cache \cup {factor}
         /\ renders' = renders + 1
         /\ icon' = factor

\* update_gradient_flash() with the timer left running in the idle state
update_gradient_flash_no_stop ==
    IF icon_state = "idle"
    THEN /\ brightness_factor' = 1000
         /\ icon' = 0
         /\ UNCHANGED <<flash_timer, flash_time, flash_cycle_duration,
                        icon_cache, renders>>
    ELSE LET duration == IF icon_state = "updates_available"
                         THEN FLASH_CYCLE_SLOW ELSE FLASH_CYCLE_FAST
             t == IF flash_time + 1 >= duration THEN 0 ELSE flash_time + 1
         IN  /\ flash_time' = t
             /\ flash_cycle_duration' = duration
             /\ brightness_factor' = brightness(t, duration)
             /\ apply_brightness(brightness(t, duration))
             /\ UNCHANGED flash_timer

update_gradient_flash ==
    IF icon_state = "idle"
    THEN /\ flash_timer' = FALSE                    \* flash_timer.stop()
         /\ brightness_factor' = 1000
         /\ icon' = 0                               \* setIcon(default_icon)
         /\ UNCHANGED <<flash_time, flash_cycle_duration, icon_cache,
                        renders>>
    ELSE LET duration == IF icon_state = "updates_available"
                         THEN FLASH_CYCLE_SLOW ELSE FLASH_CYCLE_FAST
             t == IF flash_time + 1 >= duration THEN 0 ELSE flash_time + 1
         IN  /\ flash_time' = t
             /\ flash_cycle_duration' = duration
             /\ brightness_factor' = brightness(t, duration)
             /\ apply_brightness(brightness(t, duration))
             /\ UNCHANGED flash_timer

\* An exception that leaves a slot unhandled: no sys.excepthook is installed,
\* so PyQt6 reports it through qFatal(), which aborts the process.
unhandled_exception == app' = "aborted"

(* ------------------------------------------------------------------ *)
(* the events of the controller thread                                 *)
(* ------------------------------------------------------------------ *)
\* check_timer.timeout -> check_for_updates
PeriodicTimeout ==
    /\ app = "running"
    /\ check_timer.active /\ check_timer.remaining = 0
    /\ check_timer' = [check_timer EXCEPT !.remaining = check_timer.interval]
    /\ check_for_updates
    /\ UNCHANGED <<app, settings, settings_file, yay_running,
                   flash_cycle_duration, brightness_factor, icon_cache, renders, icon, queue, session,
                   followup, now>>
    /\ UNCHANGED found_fresh
    /\ UNCHANGED checked
    /\ UNCHANGED guard_vars

\* menu "Check for Updates Now" -> check_for_updates
CheckNow ==
    /\ app = "running"
    /\ check_for_updates
    /\ UNCHANGED <<app, settings, settings_file, yay_running, check_timer,
                   flash_cycle_duration, brightness_factor, icon_cache, renders, icon, queue, session,
                   followup, now>>
    /\ found_fresh' = FALSE
    /\ UNCHANGED checked
    /\ UNCHANGED guard_vars

\* the single-shot timer armed by the session monitor -> check_for_updates
FollowupTimeout ==
    /\ app = "running"
    /\ followup
    /\ followup' = FALSE
    /\ check_for_updates
    /\ UNCHANGED <<app, settings, settings_file, yay_running, check_timer,
                   flash_cycle_duration, brightness_factor, icon_cache, renders, icon, queue, session,
                   now>>
    /\ UNCHANGED found_fresh
    /\ UNCHANGED checked
    /\ UNCHANGED guard_vars

\* the event loop delivers the oldest queued signal to its slot
DeliverSignal ==
    /\ app = "running"
    /\ queue # <<>>
    /\ queue' = Tail(queue)
    /\ IF Head(queue).signal = "updates_found"
       THEN /\ on_updates_found(Head(queue).updates)
       ELSE /\ on_check_completed
    /\ UNCHANGED <<app, yay_running, check_timer, flash_cycle_duration,
                   brightness_factor, icon_cache, renders, icon, checker_pc, checker_updates, checker_stdout, session,
                   followup, now>>
    /\ request' = "-"
    /\ found_fresh' = (Head(queue).signal = "updates_found")
    /\ UNCHANGED checked
    /\ UNCHANGED guard_vars

\* "Clear Update Alert" that also terminates the checker thread
ClearUpdates_cancelling ==
    /\ app = "running"
    /\ clear_updates
    /\ checker_pc' = "idle"
    /\ UNCHANGED <<app, settings, settings_file, yay_running, check_timer,
                   flash_timer, flash_time, flash_cycle_duration,
                   brightness_factor, icon_cache, renders, icon, checker_updates, checker_stdout, queue,
                   session, followup, now>>
    /\ request' = "-"
    /\ found_fresh' = FALSE
    /\ UNCHANGED checked
    /\ UNCHANGED guard_vars

\* menu "Clear Update Alert"
ClearUpdates ==
    /\ app = "running"
    /\ clear_updates
    /\ UNCHANGED <<app, settings, settings_file, yay_running, check_timer,
                   flash_timer, flash_time, flash_cycle_duration,
                   brightness_factor, icon_cache, renders, icon, checker_pc, checker_updates, checker_stdout, queue,
                   session, followup, now>>
    /\ request' = "-"
    /\ found_fresh' = FALSE
    /\ UNCHANGED checked
    /\ UNCHANGED guard_vars

\* setup_menu(): the entries of the Check Interval menu are checkable, and
\* the checked ones are those with seconds == current_interval
setup_menu(s) == {i \in 1..Len(intervals) : intervals[i] = s.check_interval}

\* the user activates entry i: a checkable QAction toggles its check mark
\* before it emits triggered
triggered(i) == IF i \in checked THEN checked \ {i} ELSE checked \cup {i}

\* menu "Check Interval" entry -> set_check_interval(seconds).  After the
\* setting is saved and the timer restarted, menu.actions()[2] is the
\* separator added before the Settings submenu, its menu() is None, and
\* `settings_menu.actions()` raises AttributeError.
set_check_interval(seconds) ==
    /\ settings_set("check_interval", seconds)
    /\ start_periodic_checks(settings')
    /\ unhandled_exception

SetCheckInterval ==
    /\ app = "running"
    /\ \E i \in 1..Len(intervals) :
           /\ checked' = triggered(i)
           /\ set_check_interval(intervals[i])
    /\ UNCHANGED <<updates_available, yay_running, icon_state, tooltip,
                   flash_timer, flash_time, flash_cycle_duration,
                   brightness_factor, icon_cache, renders, icon, checker_pc, checker_updates, checker_stdout, queue,
                   session, followup, now>>
    /\ request' = "-"
    /\ found_fresh' = FALSE
    /\ UNCHANGED guard_vars

\* a tick that, in the idle status, stops the polling timer as well
FlashTick_stops_polling ==
    /\ app = "running"
    /\ flash_timer
    /\ icon_state = "idle" \/ flash_time < MaxFlashTicks
    /\ update_gradient_flash
    /\ check_timer' = IF icon_state = "idle"
                      THEN [check_timer EXCEPT !.active = FALSE]
                      ELSE check_timer
    /\ UNCHANGED <<app, settings, settings_file, updates_available,
                   yay_running, icon_state, tooltip, checker_pc,
                   checker_updates, checker_stdout, queue, session, followup, now>>
    /\ request' = "-"
    /\ UNCHANGED found_fresh
    /\ UNCHANGED checked
    /\ UNCHANGED guard_vars

\* flash_timer.timeout -> update_gradient_flash
Tick ==
    /\ app = "running"
    /\ flash_timer
    /\ update_gradient_flash
    /\ UNCHANGED <<app, settings, settings_file, updates_available,
                   yay_running, icon_state, tooltip, check_timer, checker_pc,
                   checker_updates, checker_stdout, queue, session, followup, now>>
    /\ request' = "-"
    /\ UNCHANGED found_fresh
    /\ UNCHANGED checked
    /\ UNCHANGED guard_vars

\* the tick, as far as Spec follows the animation after a reset of flash_time
FlashTick ==
    /\ icon_state = "idle" \/ flash_time < MaxFlashTicks
    /\ Tick

\* subprocess.Popen of one terminal: "started", "missing" (FileNotFoundError)
\* or "error" (any other exception)
PopenOutcomes == {"started", "missing", "error"}

\* the monitor thread is started on the spawned terminal
start_monitor ==
    /\ yay_running' = TRUE
    /\ session < MaxSessions
    /\ session' = session + 1
    /\ UNCHANGED app

\* the try statement of run_yay_terminal(): gnome-terminal, then konsole,
\* then xterm
launch_terminal ==
    \E gnome \in PopenOutcomes :
       IF gnome = "started" THEN start_monitor
       ELSE IF gnome = "error"                       \* except Exception
       THEN /\ yay_running' = FALSE
            /\ UNCHANGED <<session, app>>
       ELSE \E konsole \in PopenOutcomes :
         IF konsole = "started" THEN start_monitor
         ELSE IF konsole = "error"
         \* raised inside the `except FileNotFoundError` handler: no
         \* clause of the outer try catches it
         THEN /\ yay_running' = TRUE
              /\ unhandled_exception
              /\ UNCHANGED session
         ELSE \E xterm \in PopenOutcomes :
           IF xterm = "started" THEN start_monitor
           ELSE IF xterm = "error"
           THEN /\ yay_running' = TRUE
                /\ unhandled_exception
                /\ UNCHANGED session
           ELSE /\ yay_running' = TRUE               \* "Terminal Not Found"
                /\ UNCHANGED <<session, app>>

\* run_yay_terminal() with the yay_running test left out
run_yay_terminal_unguarded == launch_terminal

\* menu "Run YAY Updates" -> run_yay_terminal()
run_yay_terminal ==
    IF yay_running
    THEN UNCHANGED <<yay_running, session, app>>     \* "YAY Already Running"
    ELSE launch_terminal

RunYayTerminal ==
    /\ app = "running"
    /\ run_yay_terminal
    /\ UNCHANGED <<settings, settings_file, updates_available, icon_state,
                   tooltip, check_timer, flash_timer, flash_time,
                   flash_cycle_duration, brightness_factor, icon_cache, renders, icon, checker_pc,
                   checker_updates, checker_stdout, queue, followup, now>>
    /\ request' = IF yay_running THEN "already_running" ELSE "-"
    /\ found_fresh' = FALSE
    /\ UNCHANGED checked
    /\ UNCHANGED guard_vars

\* monitor_yay_completion, on its own Python thread: process.wait() returns,
\* the flag is cleared and QTimer.singleShot is called from that thread.  The
\* thread runs no Qt event loop, so whether the timer is ever armed depends on
\* the Qt build: both outcomes are kept.
SessionEnds ==
    /\ app = "running"
    /\ session > 0
    /\ session' = session - 1
    /\ yay_running' = FALSE
    /\ followup' \in {TRUE, followup}
    /\ UNCHANGED <<app, settings, settings_file, updates_available, icon_state,
                   tooltip, check_timer, flash_timer, flash_time,
                   flash_cycle_duration, brightness_factor, icon_cache, renders, icon, checker_pc,
                   checker_updates, checker_stdout, queue, now>>
    /\ request' = "-"
    /\ UNCHANGED found_fresh
    /\ UNCHANGED checked
    /\ UNCHANGED guard_vars

\* TimeUnit of wall-clock time goes by; queued signals, the worker's emits
\* and due timeouts are served first
TimePasses ==
    /\ app = "running"
    /\ now < MaxClock
    /\ queue = <<>>
    /\ checker_pc \notin {"emit_found", "emit_completed"}
    /\ ~followup
    /\ check_timer.active => check_timer.remaining > 0
    /\ now' = now + 1
    /\ check_timer' = IF check_timer.active
                      THEN [check_timer EXCEPT !.remaining = @ - TimeUnit]
                      ELSE check_timer
    /\ UNCHANGED <<app, settings, settings_file, updates_available,
                   yay_running, icon_state, tooltip, flash_timer, flash_time,
                   flash_cycle_duration, brightness_factor, icon_cache, renders, icon, checker_pc,
                   checker_updates, checker_stdout, queue, session, followup>>
    /\ request' = "-"
    /\ UNCHANGED found_fresh
    /\ UNCHANGED checked
    /\ UNCHANGED guard_vars

\* UpdateNotifier.cleanup(): timers stopped, checker thread terminated
cleanup ==
    /\ flash_timer' = FALSE
    /\ icon_cache' = {}                             \* icon_cache.clear()
    /\ check_timer' = [check_timer EXCEPT !.active = FALSE]
    /\ checker_pc' = "idle"

\* SIGINT / SIGTERM -> signal_handler: notifier.cleanup(), app.quit()
Shutdown ==
    /\ app = "running"
    /\ cleanup
    /\ app' = "quit"
    /\ UNCHANGED <<settings, settings_file, updates_available, yay_running,
                   icon_state, tooltip, flash_time, flash_cycle_duration,
                   brightness_factor, renders, icon, checker_updates,
                   checker_stdout, queue, session, followup, now>>
    /\ request' = "-"
    /\ UNCHANGED found_fresh
    /\ UNCHANGED checked
    /\ UNCHANGED guard_vars

(* ------------------------------------------------------------------ *)
(* Spec: one running instance, from the end of UpdateNotifier.__init__ *)
(* ------------------------------------------------------------------ *)
Procs == 1..NumProcs
Inodes == 1..MaxInode

\* no process launched yet, no lock file
GuardAtRest ==
    /\ pc = [p \in Procs |-> "start"]
    /\ lock_file = [p \in Procs |-> 0]
    /\ instance = [p \in Procs |-> "unset"]
    /\ atexit_registered = [p \in Procs |-> FALSE]
    /\ exit_code = [p \in Procs |-> -1]
    /\ effects = [p \in Procs |-> {}]
    /\ path_inode = 0
    /\ inode_text = [i \in Inodes |-> 0]
    /\ inode_lock = [i \in Inodes |-> 0]
    /\ next_inode = 0

\* __init__: defaults loaded, timers created, the periodic timer started and
\* the initial check_for_updates() made
Init ==
    /\ app = "running"
    /\ settings_file \in StoredFiles
    /\ settings = load_settings(settings_file)
    /\ updates_available = FALSE
    /\ yay_running = FALSE
    /\ icon_state = "checking"
    /\ tooltip = Tip("Checking for updates...", 0)
    /\ check_timer = [active |-> TRUE,
                      interval |-> settings.check_interval * 1000,
                      remaining |-> settings.check_interval * 1000]
    /\ flash_timer = TRUE
    /\ flash_time = 0
    /\ flash_cycle_duration = FLASH_CYCLE_SLOW
    /\ brightness_factor = 1000
    /\ icon_cache = {}
    /\ renders = 0
    /\ icon = 0
    /\ checker_pc = "which"
    /\ checker_updates = <<>>
    /\ checker_stdout = <<>>
    /\ queue = <<>>
    /\ session = 0
    /\ followup = FALSE
    /\ now = 0
    /\ request = "started"
    /\ found_fresh = FALSE
    /\ checked = setup_menu(settings)
    /\ GuardAtRest

Next ==
    \/ CheckerWhich
    \/ CheckerSync
    \/ CheckerQuery
    \/ CheckerEmitFound
    \/ CheckerEmitCompleted
    \/ PeriodicTimeout
    \/ CheckNow
    \/ FollowupTimeout
    \/ DeliverSignal
    \/ ClearUpdates
    \/ SetCheckInterval
    \/ FlashTick
    \/ RunYayTerminal
    \/ SessionEnds
    \/ TimePasses
    \/ Shutdown

Spec == Init /\ [][Next]_vars

(* ------------------------------------------------------------------ *)
(* SpecGuard: processes running main() against <tempdir>/yay-traynote.lock *)
(* ------------------------------------------------------------------ *)
\* the kernel drops the locks of a process whose descriptors are closed
drop_locks(p) == [i \in Inodes |-> IF inode_lock[i] = p THEN 0 ELSE inode_lock[i]]

\* __enter__: open(self.lock_file_path, 'w') creates the file when the path
\* names none and truncates it when it names one
GOpen(p) ==
    /\ pc[p] = "start"
    /\ IF path_inode = 0
       THEN /\ next_inode < MaxInode
            /\ next_inode' = next_inode + 1
            /\ path_inode' = next_inode + 1
            /\ lock_file' = [lock_file EXCEPT ![p] = next_inode + 1]
            /\ inode_text' = [inode_text EXCEPT ![next_inode + 1] = 0]
       ELSE /\ lock_file' = [lock_file EXCEPT ![p] = path_inode]
            /\ inode_text' = [inode_text EXCEPT ![path_inode] = 0]
            /\ UNCHANGED <<next_inode, path_inode>>
    /\ pc' = [pc EXCEPT ![p] = "lockf"]
    /\ UNCHANGED <<instance, atexit_registered, exit_code, effects, inode_lock>>
    /\ UNCHANGED ctrl_vars

\* __enter__: fcntl.lockf(LOCK_EX | LOCK_NB); on failure the except clause
\* closes the file and returns False
GLock(p) ==
    /\ pc[p] = "lockf"
    /\ IF inode_lock[lock_file[p]] \in {0, p}
       THEN /\ inode_lock' = [inode_lock EXCEPT ![lock_file[p]] = p]
            /\ pc' = [pc EXCEPT ![p] = "write"]
            /\ UNCHANGED <<lock_file, instance>>
       ELSE /\ lock_file' = [lock_file EXCEPT ![p] = 0]
            /\ instance' = [instance EXCEPT ![p] = "False"]
            /\ pc' = [pc EXCEPT ![p] = "rejected"]
            /\ UNCHANGED inode_lock
    /\ UNCHANGED <<atexit_registered, exit_code, effects, path_inode,
                   inode_text, next_inode>>
    /\ UNCHANGED ctrl_vars

\* __enter__: write(str(os.getpid())), flush, atexit.register, return True
GWritePid(p) ==
    /\ pc[p] = "write"
    /\ inode_text' = [inode_text EXCEPT ![lock_file[p]] = p]
    /\ atexit_registered' = [atexit_registered EXCEPT ![p] = TRUE]
    /\ instance' = [instance EXCEPT ![p] = "True"]
    /\ pc' = [pc EXCEPT ![p] = "acquired"]
    /\ UNCHANGED <<lock_file, exit_code, effects, path_inode, inode_lock,
                   next_inode>>
    /\ UNCHANGED ctrl_vars

\* main: `if not instance: print(...); sys.exit(1)`; __exit__ finds
\* self.lock_file None
GReject(p) ==
    /\ pc[p] = "rejected"
    /\ exit_code' = [exit_code EXCEPT ![p] = 1]
    /\ pc' = [pc EXCEPT ![p] = "exited"]
    /\ UNCHANGED <<lock_file, instance, atexit_registered, effects, path_inode,
                   inode_text, inode_lock, next_inode>>
    /\ UNCHANGED ctrl_vars

\* main: QApplication(...), signal.signal(SIGINT / SIGTERM, signal_handler)
GInstallHandlers(p) ==
    /\ pc[p] = "acquired"
    /\ pc' = [pc EXCEPT ![p] = "handlers"]
    /\ UNCHANGED <<lock_file, instance, atexit_registered, exit_code, effects,
                   path_inode, inode_text, inode_lock, next_inode>>
    /\ UNCHANGED ctrl_vars

\* SIGINT before signal_handler is installed: KeyboardInterrupt unwinds the
\* with statement
GSigintEarly(p) ==
    /\ pc[p] = "acquired"
    /\ exit_code' = [exit_code EXCEPT ![p] = 130]
    /\ pc' = [pc EXCEPT ![p] = "unlock"]
    /\ UNCHANGED <<lock_file, instance, atexit_registered, effects, path_inode,
                   inode_text, inode_lock, next_inode>>
    /\ UNCHANGED ctrl_vars

\* SIGTERM before signal_handler is installed: the default action ends the
\* process at once, no Python code runs
GSigtermEarly(p) ==
    /\ pc[p] = "acquired"
    /\ exit_code' = [exit_code EXCEPT ![p] = 143]
    /\ pc' = [pc EXCEPT ![p] = "killed"]
    /\ inode_lock' = drop_locks(p)
    /\ UNCHANGED <<lock_file, instance, atexit_registered, effects, path_inode,
                   inode_text, next_inode>>
    /\ UNCHANGED ctrl_vars

\* main: QSystemTrayIcon.isSystemTrayAvailable() is false -> sys.exit(1)
GNoTray(p) ==
    /\ pc[p] = "handlers"
    /\ exit_code' = [exit_code EXCEPT ![p] = 1]
    /\ pc' = [pc EXCEPT ![p] = "unlock"]
    /\ UNCHANGED <<lock_file, instance, atexit_registered, effects, path_inode,
                   inode_text, inode_lock, next_inode>>
    /\ UNCHANGED ctrl_vars

\* main: UpdateNotifier(icon_path), notifier.show(), app.exec()
GConstruct(p) ==
    /\ pc[p] = "handlers"
    /\ effects' = [effects EXCEPT ![p] =
                      {"settings_loaded", "tray_icon", "check_dispatched"}]
    /\ pc' = [pc EXCEPT ![p] = "running"]
    /\ UNCHANGED <<lock_file, instance, atexit_registered, exit_code,
                   path_inode, inode_text, inode_lock, next_inode>>
    /\ UNCHANGED ctrl_vars

\* SIGINT / SIGTERM in the event loop: signal_handler quits the application,
\* app.exec() returns and sys.exit() unwinds the with statement
GQuit(p) ==
    /\ pc[p] = "running"
    /\ exit_code' = [exit_code EXCEPT ![p] = 0]
    /\ pc' = [pc EXCEPT ![p] = "unlock"]
    /\ UNCHANGED <<lock_file, instance, atexit_registered, effects, path_inode,
                   inode_text, inode_lock, next_inode>>
    /\ UNCHANGED ctrl_vars

\* a slot raises (set_check_interval does) and PyQt aborts the process
GAbort(p) ==
    /\ pc[p] = "running"
    /\ exit_code' = [exit_code EXCEPT ![p] = 134]
    /\ pc' = [pc EXCEPT ![p] = "killed"]
    /\ inode_lock' = drop_locks(p)
    /\ UNCHANGED <<lock_file, instance, atexit_registered, effects, path_inode,
                   inode_text, next_inode>>
    /\ UNCHANGED ctrl_vars

\* cleanup(): fcntl.lockf(self.lock_file, LOCK_UN)
GUnlock(p) ==
    /\ pc[p] = "unlock"
    /\ IF lock_file[p] # 0
       THEN /\ inode_lock' = drop_locks(p)
            /\ pc' = [pc EXCEPT ![p] = "close"]
       ELSE /\ pc' = [pc EXCEPT ![p] = "exited"]
            /\ UNCHANGED inode_lock
    /\ UNCHANGED <<lock_file, instance, atexit_registered, exit_code, effects,
                   path_inode, inode_text, next_inode>>
    /\ UNCHANGED ctrl_vars

\* cleanup(): self.lock_file.close()
GClose(p) ==
    /\ pc[p] = "close"
    /\ inode_lock' = drop_locks(p)
    /\ pc' = [pc EXCEPT ![p] = "unlink"]
    /\ UNCHANGED <<lock_file, instance, atexit_registered, exit_code, effects,
                   path_inode, inode_text, next_inode>>
    /\ UNCHANGED ctrl_vars

\* cleanup(): os.unlink(self.lock_file_path), OSError swallowed, then
\* self.lock_file = None
GUnlink(p) ==
    /\ pc[p] = "unlink"
    /\ path_inode' = 0
    /\ lock_file' = [lock_file EXCEPT ![p] = 0]
    /\ pc' = [pc EXCEPT ![p] = "atexit"]
    /\ UNCHANGED <<instance, atexit_registered, exit_code, effects, inode_text,
                   inode_lock, next_inode>>
    /\ UNCHANGED ctrl_vars

\* interpreter exit: the registered cleanup() runs once more
GAtExit(p) ==
    /\ pc[p] = "atexit"
    /\ pc' = [pc EXCEPT ![p] = IF atexit_registered[p] /\ lock_file[p] # 0
                               THEN "unlock" ELSE "exited"]
    /\ UNCHANGED <<lock_file, instance, atexit_registered, exit_code, effects,
                   path_inode, inode_text, inode_lock, next_inode>>
    /\ UNCHANGED ctrl_vars

\* the controller variables are not part of SpecGuard
CtrlAtRest ==
    /\ app = "quit"
    /\ settings = default_settings
    /\ settings_file = None
    /\ updates_available = FALSE
    /\ yay_running = FALSE
    /\ icon_state = "idle"
    /\ tooltip = Tip("Yay Update Notifier", 0)
    /\ check_timer = [active |-> FALSE, interval |-> 0, remaining |-> 0]
    /\ flash_timer = FALSE
    /\ flash_time = 0
    /\ flash_cycle_duration = FLASH_CYCLE_SLOW
    /\ brightness_factor = 1000
    /\ icon_cache = {}
    /\ renders = 0
    /\ icon = 0
    /\ checker_pc = "idle"
    /\ checker_updates = <<>>
    /\ checker_stdout = <<>>
    /\ queue = <<>>
    /\ session = 0
    /\ followup = FALSE
    /\ now = 0
    /\ request = "-"
    /\ found_fresh = FALSE
    /\ checked = setup_menu(default_settings)

InitGuard == GuardAtRest /\ CtrlAtRest

NextGuard ==
    \/ \E p \in Procs : GOpen(p)
    \/ \E p \in Procs : GLock(p)
    \/ \E p \in Procs : GWritePid(p)
    \/ \E p \in Procs : GReject(p)
    \/ \E p \in Procs : GInstallHandlers(p)
    \/ \E p \in Procs : GSigintEarly(p)
    \/ \E p \in Procs : GSigtermEarly(p)
    \/ \E p \in Procs : GNoTray(p)
    \/ \E p \in Procs : GConstruct(p)
    \/ \E p \in Procs : GQuit(p)
    \/ \E p \in Procs : GAbort(p)
    \/ \E p \in Procs : GUnlock(p)
    \/ \E p \in Procs : GClose(p)
    \/ \E p \in Procs : GUnlink(p)
    \/ \E p \in Procs : GAtExit(p)

SpecGuard == InitGuard /\ [][NextGuard]_vars

(* ------------------------------------------------------------------ *)
(* SpecAnim: the start-up check and the animation followed through    *)
(* whole cycles; no further check, interval menu or terminal session   *)
(* ------------------------------------------------------------------ *)
NextAnim ==
    \/ Tick
    \/ ClearUpdates
    \/ DeliverSignal
    \/ CheckerWhich
    \/ CheckerSync
    \/ CheckerQuery
    \/ CheckerEmitFound
    \/ CheckerEmitCompleted
    \/ Shutdown

SpecAnim == Init /\ [][NextAnim]_vars

(* ------------------------------------------------------------------ *)
(* Properties                                                          *)
(* ------------------------------------------------------------------ *)
requestCheck == PeriodicTimeout \/ CheckNow \/ FollowupTimeout
isRunning == checker_pc # "idle"
PastGuard(p) == pc[p] \in {"acquired", "handlers", "running"}
Terminated(p) == pc[p] \in {"exited", "killed"}

\* C1: a check request made while the checker thread is running changes
\* neither the status, the updates flag, the animation state, the settings
\* nor the checker and its queue, and a run of the checker is started only
\* when none is running.
C1_SingleFlight ==
    /\ [][(requestCheck /\ isRunning) =>
             UNCHANGED <<icon_state, updates_available, tooltip, flash_timer,
                         flash_time, flash_cycle_duration, brightness_factor, icon_cache, renders, icon,
                         settings, settings_file, checker_pc, checker_updates, checker_stdout,
                         queue>>]_vars
    /\ [][(checker_pc' = "which" /\ checker_pc # "which") => ~isRunning]_vars

\* C1 witness: a request was ignored while a check was in flight, after the
\* alert had been cleared
C1_IgnoredWhileRunning ==
    /\ request = "ignored"
    /\ isRunning
    /\ icon_state = "idle"

\* C2: whenever the checker has retired while the status is still "checking"
\* and no updates are flagged, its completion is waiting in the event queue
\* for the controller.
C2_AbsentToolCompletes ==
    (app = "running" /\ ~isRunning /\ icon_state = "checking"
        /\ ~updates_available)
    => \E i \in 1..Len(queue) : queue[i].signal = "check_completed"

\* C3 as stated: while the application runs, the animation timer is
\* inactive exactly when the status is idle.
C3_InactiveIffIdle ==
    app = "running" => (~flash_timer <=> icon_state = "idle")

\* C3 amended: while the application runs an inactive animation timer
\* implies the idle status, and an animation tick taken in the idle status
\* stops the timer.
C3_InactiveImpliesIdle ==
    /\ [](app = "running" => (~flash_timer => icon_state = "idle"))
    /\ [][(FlashTick /\ icon_state = "idle") => ~flash_timer']_vars

\* C3 witness: the timer has been stopped in the idle status
C3_StoppedWhenIdle ==
    /\ app = "running"
    /\ ~flash_timer
    /\ icon_state = "idle"
    /\ brightness_factor = 1000
    /\ icon = 0
    /\ tooltip = Tip("No updates available", 0)

\* C4: at most one process at a time is past the single-instance guard.
C4_MutualExclusion ==
    Cardinality({p \in Procs : PastGuard(p)}) <= 1

\* C5: once a process rejected by the guard has exited, it exited with code
\* 1 without any effect, and for a process that is past the guard the lock
\* file exists, holds that process's pid and is locked by it.
C5_RejectedLeavesNoTrace ==
    \A q \in Procs : \A p \in Procs :
        (pc[q] = "exited" /\ instance[q] = "False" /\ PastGuard(p))
        => /\ exit_code[q] = 1
           /\ effects[q] = {}
           /\ path_inode # 0
           /\ inode_text[path_inode] = p
           /\ inode_lock[path_inode] = p

\* C6: a terminated process that had acquired the lock has released it: it
\* holds no lock file object, and the lock file path does not name a file
\* carrying its pid.
C6_ReleasedOnEveryExit ==
    \A p \in Procs :
        (Terminated(p) /\ instance[p] = "True")
        => /\ lock_file[p] = 0
           /\ ~(path_inode # 0 /\ inode_text[path_inode] = p)

\* C7: when the check_completed of a check that found updates is delivered,
\* and no menu command was given since its updates_found was delivered, the
\* flag is set, the status is updates_available, the animation timer is
\* active, the tooltip shows the number of updates and last_check is saved.
C7_FoundSettles ==
    [][(DeliverSignal /\ Head(queue).signal = "check_completed"
           /\ found_fresh) =>
          /\ updates_available'
          /\ icon_state' = "updates_available"
          /\ flash_timer'
          /\ tooltip'.text = "updates available"
          /\ tooltip'.count > 0
          /\ settings'.last_check # None
          /\ settings_file' = Some(settings')]_vars

\* C8: past the availability test the checker thread retires only by
\* queueing check_completed, whatever the sync and the query did; delivering
\* check_completed saves last_check, and with no updates flagged it sets the
\* idle status and the "no updates" tooltip.
C8_AlwaysCompletes ==
    /\ [][(checker_pc \in {"sync", "query", "emit_found", "emit_completed"}
              /\ checker_pc' = "idle" /\ app' = "running") =>
             /\ Len(queue') = Len(queue) + 1
             /\ queue'[Len(queue')].signal = "check_completed"]_vars
    /\ [][(checker_pc \in {"sync", "query"} /\ checker_pc' # checker_pc
              /\ app' = "running") =>
             checker_pc' \in {"query", "emit_found", "emit_completed"}]_vars
    /\ [][(DeliverSignal /\ Head(queue).signal = "check_completed") =>
             /\ settings'.last_check = Some(now)
             /\ settings_file' = Some(settings')
             /\ ~updates_available =>
                   /\ icon_state' = "idle"
                   /\ tooltip' = Tip("No updates available", 0)]_vars

\* C8 witness: a check without updates has retired and its completion has
\* been delivered
C8_NoneSettled ==
    /\ app = "running"
    /\ icon_state = "idle"
    /\ tooltip = Tip("No updates available", 0)
    /\ settings.last_check # None
    /\ settings_file = Some(settings)
    /\ ~isRunning
    /\ queue = <<>>
    /\ flash_timer

\* C9: clearing the alert sets the idle status and clears the flag, and
\* leaves the checker thread, its queued signals, the periodic timer, the
\* settings and the session flag as they were.
C9_ClearFrame ==
    [][ClearUpdates =>
          /\ icon_state' = "idle"
          /\ ~updates_available'
          /\ UNCHANGED <<checker_pc, checker_updates, checker_stdout, queue, check_timer,
                         settings, settings_file, yay_running, session,
                         followup>>]_vars

\* C9 witness: the alert was cleared while a check is in flight
C9_ClearedInFlight ==
    /\ tooltip = Tip("Alert cleared", 0)
    /\ icon_state = "idle"
    /\ checker_pc \in {"sync", "query", "emit_found"}
    /\ check_timer.active

\* C10: choosing an interval saves it, restarts the periodic timer with the
\* full interval, and leaves the application running with status, flag and
\* checker as they were.
C10_IntervalApplied ==
    [][SetCheckInterval =>
          /\ settings'.check_interval \in IntervalValues
          /\ settings_file' = Some(settings')
          /\ check_timer' = [active |-> TRUE,
                             interval |-> settings'.check_interval * 1000,
                             remaining |-> settings'.check_interval * 1000]
          /\ app' = "running"
          /\ UNCHANGED <<icon_state, updates_available, checker_pc>>]_vars

\* C11: while the application runs the polling timer is active, and no step
\* that leaves the application running deactivates it or changes its
\* interval away from the saved check_interval.
C11_PollingAlwaysActive ==
    /\ [](app = "running" =>
             /\ check_timer.active
             /\ check_timer.interval = settings.check_interval * 1000)
    /\ [][app' = "running" => check_timer'.active]_vars

\* C11 witness: the animation timer has been stopped in the idle status
\* after time has passed, and the polling timer is still counting down
C11_PollingWhileAnimatorStopped ==
    /\ app = "running"
    /\ ~flash_timer
    /\ icon_state = "idle"
    /\ check_timer.active
    /\ check_timer.remaining < check_timer.interval

\* C12: at most one spawned terminal is alive at any time, and a launch made
\* while yay_running is set spawns nothing and changes no controller state.
C12_SingleSession ==
    /\ [](session <= 1)
    /\ [][(RunYayTerminal /\ yay_running) =>
             UNCHANGED <<app, settings, settings_file, updates_available,
                         yay_running, icon_state, tooltip, check_timer,
                         flash_timer, flash_time, flash_cycle_duration,
                         brightness_factor, icon_cache, renders, icon, checker_pc, checker_updates, checker_stdout,
                         queue, session, followup, now>>]_vars

\* C12 witness: a launch was turned down while a spawned terminal is alive
C12_LaunchTurnedDown ==
    /\ request = "already_running"
    /\ yay_running
    /\ session = 1

\* C13: while the application runs, yay_running is set only while a spawned
\* terminal is alive; in particular it is not set after a launch in which no
\* terminal could be started.
C13_FlagOnlyWhileSession ==
    app = "running" => (yay_running => session > 0)

\* steps taken on the UpdateChecker thread or on a monitor thread
OffControllerStep ==
    \/ CheckerWhich
    \/ CheckerSync
    \/ CheckerQuery
    \/ CheckerEmitFound
    \/ CheckerEmitCompleted
    \/ SessionEnds

\* C14: when a spawned terminal exits, yay_running is cleared and a follow-up
\* check_for_updates() is pending on the controller.
C14_FollowupAfterSession ==
    [][SessionEnds => (~yay_running' /\ followup')]_vars

\* C15: a step of the checker thread or of a monitor thread writes none of
\* the controller's variables; it only appends to the event queue.
C15_ControllerThreadOnly ==
    [][OffControllerStep =>
          UNCHANGED <<icon_state, updates_available, yay_running, tooltip,
                      flash_timer, flash_time, flash_cycle_duration,
                      brightness_factor, icon_cache, renders, icon, settings, settings_file,
                      check_timer>>]_vars

\* what the parse is specified to keep: the non-blank lines with exactly one
\* separator, name and version trimmed
RECURSIVE one_arrow_records(_)
one_arrow_records(lines) ==
    IF lines = <<>> THEN <<>>
    ELSE LET rest == one_arrow_records(Tail(lines))
         IN  IF Len(Head(lines)) = 2
             THEN <<[name |-> strip(Head(lines)[1]),
                     version |-> strip(Head(lines)[2])]>> \o rest
             ELSE rest

\* C16: once the query output is parsed, the worker's list holds exactly the
\* records of the lines with exactly one ' -> ', in order, and updates_found
\* is emitted when and only when that list is not empty.
C16_ParseExactlyOneArrow ==
    checker_pc \in {"emit_found", "emit_completed"} =>
        /\ checker_updates = one_arrow_records(checker_stdout)
        /\ (checker_pc = "emit_found") =>
               one_arrow_records(checker_stdout) # <<>>

\* C17: while the application runs the icon cache only grows; its keys are
\* brightness values in thousandths below 1.0, so it never holds more than
\* 1000 entries; every key has been rendered exactly once, so a repeated call
\* with the same key returns the instance rendered the first time; a tick
\* whose brightness is 1.0 or more shows the base icon and inserts nothing;
\* the shutdown clean-up empties the cache.
C17_IconCache ==
    /\ [](app = "running" =>
            /\ icon_cache \subseteq 0..999
            /\ Cardinality(icon_cache) <= 1000
            /\ renders = Cardinality(icon_cache)
            /\ icon # 0 => icon \in icon_cache)
    /\ [][/\ app' = "running" => icon_cache \subseteq icon_cache'
          /\ (Tick /\ brightness_factor' >= 1000) =>
                 /\ icon' = 0
                 /\ icon_cache' = icon_cache
                 /\ renders' = renders
          /\ (Tick /\ icon_state # "idle" /\ brightness_factor' \in icon_cache) =>
                 /\ icon' = brightness_factor'
                 /\ icon_cache' = icon_cache
                 /\ renders' = renders
          /\ Shutdown => icon_cache' = {}]_vars

\* C17 witness: the fifth tick of the fast cycle asks for the key 0.981 a
\* second time and is served from the cache: three renders for four calls
\* below 1.0
C17_CacheHit ==
    /\ app = "running"
    /\ icon_state = "checking"
    /\ flash_time = 5
    /\ icon = 981
    /\ icon_cache = {846, 927, 981}
    /\ renders = 3

\* C18 (as stated): every tick taken outside the idle state leaves the
\* brightness in [0.5, 1.0], and a tick that leaves the phase at 0 leaves the
\* brightness at 1.0.
C18_FullAtPhaseZero ==
    [][(Tick /\ icon_state # "idle") =>
           /\ brightness_factor' \in 500..1000
           /\ flash_time' = 0 => brightness_factor' = 1000]_vars

\* C18 (amended): every tick taken outside the idle state leaves the phase
\* inside the cycle and the brightness in [0.5, 1.0]; a tick that leaves the
\* phase at 0 leaves the brightness at 0.75, and the brightness is 1.0 exactly
\* at the quarter of the cycle (fourth increment of the fast cycle, fifteenth
\* of the slow one).
C18_BrightnessRange ==
    /\ [](brightness_factor \in 500..1000)
    /\ [][(Tick /\ icon_state # "idle") =>
             /\ flash_time' \in 0..(flash_cycle_duration' - 1)
             /\ brightness_factor' \in 500..1000
             /\ flash_time' = 0 => brightness_factor' = 750
             /\ brightness_factor' = 1000 <=>
                    flash_time' = (IF icon_state = "updates_available"
                                   THEN 15 ELSE 4)]_vars

\* C18 witness: the slow cycle has wrapped: the phase is back at 0 after the
\* falling half of the wave, and the brightness is 0.75
C18_WrappedAtMidpoint ==
    /\ app = "running"
    /\ icon_state = "updates_available"
    /\ flash_cycle_duration = FLASH_CYCLE_SLOW
    /\ flash_time = 0
    /\ brightness_factor = 750
    /\ {500, 724} \subseteq icon_cache

\* C19: a check is dispatched (the worker started, the updates flag cleared
\* and the status set to checking) only when no updates_found or
\* check_completed of the previous run is still queued for the controller.
C19_NoStaleCompletion ==
    [][(requestCheck /\ request' = "started") => queue = <<>>]_vars

\* C20: a tick taken while the status is idle stops the animation timer,
\* sets the brightness to 1.0 and shows the base icon; no tick is taken while
\* the timer is stopped, and the timer is started again only by a step that
\* leaves the status other than idle; every step that sets the status to
\* checking or updates_available, or dispatches a check, leaves the timer
\* active.
C20_AnimatorFollowsStatus ==
    [][/\ (Tick /\ icon_state = "idle") =>
              /\ ~flash_timer'
              /\ brightness_factor' = 1000
              /\ icon' = 0
              /\ icon_state' = "idle"
       /\ ~flash_timer => ~Tick
       /\ (~flash_timer /\ flash_timer') => icon_state' # "idle"
       /\ (icon_state' # "idle" /\ app' = "running"
              /\ (icon_state' # icon_state \/ request' = "started")) =>
              flash_timer']_vars

\* C20 witness: a check dispatched after the animation had stopped: the
\* timer runs again, the frame on display is still the base icon the
\* stopping tick has set, and the cache holds the frames of the earlier cycle
C20_RestartedAfterStop ==
    /\ app = "running"
    /\ icon_state = "checking"
    /\ request = "started"
    /\ flash_timer
    /\ flash_time = 0
    /\ brightness_factor = 1000
    /\ icon = 0
    /\ icon_cache # {}

\* C21: while the application runs, the updates flag is set exactly when the
\* status is updates_available; a dispatched check leaves the flag clear and
\* the status checking, a delivered updates_found leaves the flag set and the
\* status updates_available, Clear Update Alert leaves the flag clear and the
\* status idle, and a delivered check_completed changes the status, to idle,
\* only when the flag is clear.
C21_FlagIffUpdatesAvailable ==
    /\ [](app = "running" =>
            (updates_available <=> icon_state = "updates_available"))
    /\ [][/\ (requestCheck /\ request' = "started") =>
                 (~updates_available' /\ icon_state' = "checking")
          /\ (DeliverSignal /\ Head(queue).signal = "updates_found") =>
                 (updates_available' /\ icon_state' = "updates_available")
          /\ ClearUpdates =>
                 (~updates_available' /\ icon_state' = "idle")
          /\ (DeliverSignal /\ Head(queue).signal = "check_completed") =>
                 /\ updates_available' = updates_available
                 /\ icon_state' # icon_state =>
                        (~updates_available /\ icon_state' = "idle")]_vars

\* C21 witness: the check_completed of a run that found updates has been
\* delivered: the flag is set and the status is still updates_available
C21_CompletedKeepsAlert ==
    /\ app = "running"
    /\ updates_available
    /\ icon_state = "updates_available"
    /\ found_fresh = FALSE
    /\ request = "-"
    /\ checker_pc = "idle"
    /\ queue = <<>>
    /\ settings.last_check # None

\* C22: after the menu is built, and after every choice of one of the six
\* intervals, the application runs with exactly one entry of the Check
\* Interval menu checked, the entry of the saved check_interval.
C22_MenuMirrorsSetting ==
    /\ [](app = "running" =>
            /\ Cardinality(checked) = 1
            /\ \A i \in checked : intervals[i] = settings.check_interval)
    /\ [][SetCheckInterval =>
             /\ app' = "running"
             /\ settings_file' = Some(settings')
             /\ checked' = {i \in 1..Len(intervals) :
                               intervals[i] = settings'.check_interval}]_vars

====
